---- MODULE Spec2Model ----
(***************************************************************************)
(* Model of python/tk_multi_reviewsubmission/renderer.py: the Renderer     *)
(* class that builds a Nuke node graph read -> burn-in/slate -> scale ->   *)
(* write inside a temporary Group node, renders it and deletes the group.  *)
(*                                                                         *)
(* Text is modelled as a sequence of one-character strings, so that the    *)
(* formatting rules (padding, capitalize, "%s, %s") are computed and not   *)
(* assumed.  A host call that can raise is a nondeterministic choice       *)
(* between its normal effect and the exception.                            *)
(***************************************************************************)
EXTENDS Integers, Sequences, FiniteSets, TLC

(* ---------------------------------------------------------------- bounds *)
MaxCalls == 1
MaxFrame == 2
MinVersion == 8
MaxVersion == 11
MaxPadding == 2

(* ------------------------------------------------------- text primitives *)
DigitChars == <<"0", "1", "2", "3", "4", "5", "6", "7", "8", "9">>

RECURSIVE NatStr(_)
NatStr(n) ==
    IF n < 10 THEN <<DigitChars[n + 1]>>
    ELSE NatStr(n \div 10) \o <<DigitChars[(n % 10) + 1]>>

\* str(n) of a Python int, as "%s" and "{}" format it
IntStr(n) == IF n < 0 THEN <<"-">> \o NatStr(0 - n) ELSE NatStr(n)

RECURSIVE Fill(_, _)
Fill(c, k) == IF k <= 0 THEN <<>> ELSE <<c>> \o Fill(c, k - 1)

\* the format spec "{:0>pad}": right-align in a field of width pad, fill "0"
PadLeft_Truncating(s, pad) ==
    IF Len(s) >= pad THEN SubSeq(s, Len(s) - pad + 1, Len(s))
    ELSE Fill("0", pad - Len(s)) \o s

PadLeft(s, pad) ==
    IF Len(s) >= pad THEN s ELSE Fill("0", pad - Len(s)) \o s

\* "v{ver:0>{pad}}".format(ver=version, pad=padding)
VersionStr(version, padding) == <<"v">> \o PadLeft(IntStr(version), padding)

LowerCase == <<"a", "c", "i", "m", "n", "o", "p">>
UpperCase == <<"A", "C", "I", "M", "N", "O", "P">>

ToUpper(c) ==
    IF \E i \in 1..Len(LowerCase) : LowerCase[i] = c
    THEN UpperCase[CHOOSE i \in 1..Len(LowerCase) : LowerCase[i] = c]
    ELSE c

ToLower(c) ==
    IF \E i \in 1..Len(UpperCase) : UpperCase[i] = c
    THEN LowerCase[CHOOSE i \in 1..Len(UpperCase) : UpperCase[i] = c]
    ELSE c

\* str.capitalize(): first character upper-cased, the rest lower-cased
Capitalize(s) ==
    [i \in 1..Len(s) |-> IF i = 1 THEN ToUpper(s[i]) ELSE ToLower(s[i])]

NL == "\n"

(* ----------------------------------------------------------- path helpers *)
\* os.sep of the platform the module singles out ("Otherwise it won't work
\* on Windows"); a path is a sequence of components and separators
os_sep == "\\"

_fix_path(path) ==
    [i \in 1..Len(path) |-> IF path[i] = os_sep THEN "/" ELSE path[i]]

\* os.path.dirname: everything before the last separator
dirname(path) ==
    LET seps == {i \in 1..Len(path) : path[i] \in {"/", os_sep}}
    IN  IF seps = {} THEN <<>>
        ELSE LET k == CHOOSE i \in seps : \A j \in seps : j <= i
             IN  IF k = 1 THEN SubSeq(path, 1, 1) ELSE SubSeq(path, 1, k - 1)

(* -------------------------------------------------------- on-screen text *)
\* an absent task or step is <<>>, a present one is <<name>>
None == <<>>

version_label_StepFirst(c, version_str) ==
    IF c.step # None THEN c.step[1] \o <<",", " ">> \o version_str
    ELSE IF c.task # None THEN c.task[1] \o <<",", " ">> \o version_str
    ELSE version_str

version_label(c, version_str) ==
    IF c.task # None THEN c.task[1] \o <<",", " ">> \o version_str
    ELSE IF c.step # None THEN c.step[1] \o <<",", " ">> \o version_str
    ELSE version_str

ProjectKey == <<"P", "r", "o", "j", "e", "c", "t", ":", " ">>
NameKey == <<"N", "a", "m", "e", ":", " ">>
VersionKey == <<"V", "e", "r", "s", "i", "o", "n", ":", " ">>
TaskKey == <<"T", "a", "s", "k", ":", " ">>
StepKey == <<"S", "t", "e", "p", ":", " ">>
FramesKey == <<"F", "r", "a", "m", "e", "s", ":", " ">>

slate_str(c, name, version_str, first_frame, last_frame) ==
    ProjectKey \o c.project \o <<NL>>
    \o c.entity.type \o <<":", " ">> \o c.entity.name \o <<NL>>
    \o NameKey \o Capitalize(name) \o <<NL>>
    \o VersionKey \o version_str \o <<NL>>
    \o (IF c.task # None THEN TaskKey \o c.task[1] \o <<NL>>
        ELSE IF c.step # None THEN StepKey \o c.step[1] \o <<NL>>
        ELSE <<>>)
    \o FramesKey \o IntStr(first_frame) \o <<" ", "-", " ">>
    \o IntStr(last_frame) \o <<NL>>

(* ------------------------------------------------------------ host knobs *)
\* A knob that can carry an expression.  setValue on an animated knob sets a
\* key and leaves the knob driven by its animation; on a plain knob it sets
\* the constant value.
setExpression(k, e) ==
    [k EXCEPT !.expression = e, !.animated = (k.animated \/ e # "")]

clearAnimated(k) == [k EXCEPT !.animated = FALSE, !.expression = ""]

setValue(k, v) ==
    IF k.animated THEN [k EXCEPT !.keys = k.keys \cup {v}]
    ELSE [k EXCEPT !.value = v]

\* the 'which' knob of slate_or_burnin_chooser as burnin.nk defines it:
\* driven by an expression that selects the slate on the slate frame
PastedChooser ==
    [expression |-> "slate_frame", animated |-> TRUE, value |-> 0, keys |-> {}]

disable_slate_ValueFirst(k) == clearAnimated(setExpression(setValue(k, 1), ""))

disable_slate(k) == setValue(clearAnimated(setExpression(k, "")), 1)

chooser_knob(k, add_slate) == IF ~add_slate THEN disable_slate(k) ELSE k

scale_disable_Inverted(resize_movie) == resize_movie

scale_disable(resize_movie) == IF ~resize_movie THEN TRUE ELSE FALSE

\* the frame ranges argument of nuke.executeMultiple
render_range(first_frame, last_frame) ==
    [first |-> first_frame - 1, last |-> last_frame, step |-> 1]

(* ----------------------------------------------------------------- state *)
VARIABLES
    settings,     \* the app's settings read through get_setting
    ctx,          \* the app's context: project, entity, step, task
    root_proxy,   \* the 'proxy' knob of the host's root node
    pc,           \* position of control in render_movie_in_nuke
    calls,        \* number of calls of render_movie_in_nuke so far
    groups,       \* the Group nodes of this code that exist in the host script
    group,        \* the Group node of the current call
    depth,        \* group.begin() calls not yet matched by group.end()
    args,         \* the arguments of the current call
    read,         \* the Read node
    burn,         \* the pasted burn-in/slate node
    scale,        \* the Reformat node
    output_node,  \* the Write node; not created models None
    exc,          \* an exception is propagating
    log,          \* the host and app calls of the current call, in order
    ensured,      \* the folders handed to ensure_folder_exists
    rendered      \* the executeMultiple calls: node, frame range, group alive

vars == <<settings, ctx, root_proxy, pc, calls, groups, group, depth, args,
          read, burn, scale, output_node, exc, log, ensured, rendered>>

app == <<settings, ctx, root_proxy>>

(* ---------------------------------------------------------------- inputs *)
Frames == 1..MaxFrame
Versions == MinVersion..MaxVersion
Paddings == 0..MaxPadding
ColorSpaces == {"", "sRGB"}

TaskName == <<"c", "o", "m", "p">>
StepName == <<"A", "n", "i", "m">>
ProjectName == <<"p", "i", "c">>
ShotEntity == [type |-> <<"S", "h", "o", "t">>, name |-> <<"a", "0", "1">>]
MovieName == <<"m", "A", "i", "n">>
InputPath == <<"C:", "\\", "seq", "\\", "a01.%04d.exr">>
OutputPath == <<"C:", "\\", "review", "\\", "a01.mov">>
Font == "liberationsans_regular.ttf"

NoArgs ==
    [path |-> <<>>, output_path |-> <<>>, width |-> 0, height |-> 0,
     first_frame |-> 0, last_frame |-> 0, version |-> 0, name |-> <<>>,
     color_space |-> ""]

NoKnob == [expression |-> "", animated |-> FALSE, value |-> 0, keys |-> {}]

NoRead ==
    [created |-> FALSE, name |-> "", file |-> <<>>, on_error |-> "",
     first |-> 0, last |-> 0, colorspace |-> ""]

NoBurn ==
    [created |-> FALSE, input0 |-> "", font |-> "", logo |-> "",
     top_left |-> <<>>, top_right |-> <<>>, bottom_left |-> <<>>,
     slate_info |-> <<>>, which |-> NoKnob, text_disable |-> FALSE]

NoScale ==
    [created |-> FALSE, input0 |-> "", type |-> "", box_width |-> 0,
     box_height |-> 0, resize |-> "", box_fixed |-> FALSE, center |-> FALSE,
     black_outside |-> FALSE, disable |-> FALSE]

NoWrite ==
    [created |-> FALSE, input0 |-> "", file_type |-> "", file |-> <<>>,
     proxy |-> <<>>]

\* where control goes when a statement of the try block raises
on_raise_NoFinally == "raised"

on_raise == "finally"

\* where control goes after the finally clause
after_finally_Swallow(exception) == "after"

after_finally(exception) == IF exception THEN "raised" ELSE "after"

(* ------------------------------------------------------------------ Init *)
Init ==
    /\ settings \in [resize_movie : BOOLEAN, add_slate : BOOLEAN,
                     add_burn_ins : BOOLEAN,
                     version_number_padding : Paddings]
    /\ ctx \in [project : {ProjectName}, entity : {ShotEntity},
                step : {None, <<StepName>>}, task : {None, <<TaskName>>}]
    /\ root_proxy \in BOOLEAN
    /\ pc = "idle"
    /\ calls = 0
    /\ groups = {}
    /\ group = 0
    /\ depth = 0
    /\ args = NoArgs
    /\ read = NoRead
    /\ burn = NoBurn
    /\ scale = NoScale
    /\ output_node = NoWrite
    /\ exc = FALSE
    /\ log = <<>>
    /\ ensured = <<>>
    /\ rendered = <<>>

(* --------------------------------------------------------------- actions *)
\* entry of render_movie_in_nuke: output_node = None, nuke.nodes.Group()
Call ==
    /\ pc = "idle"
    /\ calls < MaxCalls
    /\ \E f \in Frames, l \in Frames, v \in Versions, cs \in ColorSpaces :
        /\ f <= l
        /\ args' = [path |-> InputPath, output_path |-> OutputPath,
                    width |-> 1024, height |-> 540,
                    first_frame |-> f, last_frame |-> l, version |-> v,
                    name |-> MovieName, color_space |-> cs]
    /\ calls' = calls + 1
    /\ group' = calls + 1
    /\ groups' = groups \cup {calls + 1}
    /\ output_node' = NoWrite
    /\ log' = <<"Group">>
    /\ pc' = "begin"
    /\ UNCHANGED <<app, depth, read, burn, scale, exc, ensured, rendered>>

\* group.begin()
GroupBegin ==
    /\ pc = "begin"
    /\ depth' = depth + 1
    /\ log' = Append(log, "begin")
    /\ pc' = "read"
    /\ UNCHANGED <<app, calls, groups, group, args, read, burn, scale,
                   output_node, exc, ensured, rendered>>

Raise ==
    /\ exc' = TRUE
    /\ pc' = on_raise

\* nuke.nodes.Read(...) and its knobs
CreateRead ==
    /\ pc = "read"
    /\ \/ /\ read' = [created |-> TRUE, name |-> "source",
                      file |-> _fix_path(args.path), on_error |-> "black",
                      first |-> args.first_frame, last |-> args.last_frame,
                      colorspace |-> IF args.color_space # ""
                                     THEN args.color_space ELSE "default"]
          /\ log' = Append(log, "Read")
          /\ pc' = "burn"
          /\ UNCHANGED exc
       \/ \* nuke.nodes.Read raises: no node
          /\ Raise
          /\ UNCHANGED <<read, log>>
       \/ \* the colorspace knob rejects the value after the node was created
          /\ args.color_space # ""
          /\ Raise
          /\ read' = [created |-> TRUE, name |-> "source",
                      file |-> _fix_path(args.path), on_error |-> "black",
                      first |-> args.first_frame, last |-> args.last_frame,
                      colorspace |-> "default"]
          /\ log' = Append(log, "Read")
    /\ UNCHANGED <<app, calls, groups, group, depth, args, burn, scale,
                   output_node, ensured, rendered>>

\* __create_slate_burn_ins(...) and burn.setInput(0, read)
CreateSlateBurnIns ==
    /\ pc = "burn"
    /\ \/ LET version_str == VersionStr(args.version,
                                        settings.version_number_padding)
          IN  /\ burn' = [created |-> TRUE, input0 |-> "read",
                          font |-> Font, logo |-> "",
                          top_left |-> ctx.project,
                          top_right |-> ctx.entity.name,
                          bottom_left |-> version_label(ctx, version_str),
                          slate_info |-> slate_str(ctx, args.name, version_str,
                                                   args.first_frame,
                                                   args.last_frame),
                          which |-> chooser_knob(PastedChooser,
                                                 settings.add_slate),
                          text_disable |-> ~settings.add_burn_ins]
              /\ log' = Append(log, "nodePaste")
              /\ pc' = "scale"
              /\ UNCHANGED exc
       \/ /\ Raise
          /\ UNCHANGED <<burn, log>>
    /\ UNCHANGED <<app, calls, groups, group, depth, args, read, scale,
                   output_node, ensured, rendered>>

\* __create_scale_node(width, height), scale.setInput(0, burn), the disable
CreateScaleNode ==
    /\ pc = "scale"
    /\ \/ /\ scale' = [created |-> TRUE, input0 |-> "burn",
                       type |-> "to box", box_width |-> args.width,
                       box_height |-> args.height, resize |-> "fit",
                       box_fixed |-> TRUE, center |-> TRUE,
                       black_outside |-> TRUE,
                       disable |-> scale_disable(settings.resize_movie)]
          /\ log' = Append(log, "Reformat")
          /\ pc' = "output"
          /\ UNCHANGED exc
       \/ /\ Raise
          /\ UNCHANGED <<scale, log>>
    /\ UNCHANGED <<app, calls, groups, group, depth, args, read, burn,
                   output_node, ensured, rendered>>

\* __create_output_node(output_path) and output_node.setInput(0, scale)
CreateOutputNode ==
    /\ pc = "output"
    /\ LET node == [created |-> TRUE, input0 |-> "", file_type |-> "mov",
                    file |-> IF root_proxy THEN <<>>
                             ELSE _fix_path(args.output_path),
                    proxy |-> IF root_proxy THEN _fix_path(args.output_path)
                              ELSE <<>>]
       IN  \/ /\ output_node' = [node EXCEPT !.input0 = "scale"]
              /\ log' = log \o <<"hook", "Write">>
              /\ pc' = "finally"
              /\ UNCHANGED exc
           \/ \* the codec settings hook raises: no Write node, no assignment
              /\ Raise
              /\ log' = Append(log, "hook")
              /\ UNCHANGED output_node
           \/ \* setInput raises after output_node was assigned
              /\ Raise
              /\ output_node' = node
              /\ log' = log \o <<"hook", "Write">>
    /\ UNCHANGED <<app, calls, groups, group, depth, args, read, burn, scale,
                   ensured, rendered>>

\* finally: group.end(); a pending exception then leaves the call
GroupEnd ==
    /\ pc = "finally"
    /\ depth' = depth - 1
    /\ log' = Append(log, "end")
    /\ pc' = after_finally(exc)
    /\ UNCHANGED <<app, calls, groups, group, args, read, burn, scale,
                   output_node, exc, ensured, rendered>>

\* if output_node: ensure_folder_exists(os.path.dirname(output_path))
EnsureFolderExists ==
    /\ pc = "after"
    /\ IF output_node.created
       THEN \/ /\ ensured' = Append(ensured, dirname(args.output_path))
               /\ log' = Append(log, "ensure_folder_exists")
               /\ pc' = "execute"
               /\ UNCHANGED exc
            \/ /\ exc' = TRUE
               /\ pc' = "raised"
               /\ UNCHANGED <<ensured, log>>
       ELSE /\ pc' = "delete"
            /\ UNCHANGED <<ensured, log, exc>>
    /\ UNCHANGED <<app, calls, groups, group, depth, args, read, burn, scale,
                   output_node, rendered>>

\* nuke.executeMultiple([output_node], ([first_frame-1, last_frame, 1],), ...)
ExecuteMultiple ==
    /\ pc = "execute"
    /\ rendered' = Append(rendered,
                          [node |-> output_node,
                           range |-> render_range(args.first_frame,
                                                  args.last_frame),
                           group_alive |-> group \in groups])
    /\ log' = Append(log, "executeMultiple")
    /\ \/ /\ pc' = "delete"
          /\ UNCHANGED exc
       \/ /\ exc' = TRUE
          /\ pc' = "raised"
    /\ UNCHANGED <<app, calls, groups, group, depth, args, read, burn, scale,
                   output_node, ensured>>

\* nuke.delete(group)
DeleteGroup ==
    /\ pc = "delete"
    /\ groups' = groups \ {group}
    /\ log' = Append(log, "delete")
    /\ pc' = "returned"
    /\ UNCHANGED <<app, calls, group, depth, args, read, burn, scale,
                   output_node, exc, ensured, rendered>>

\* control is back in the caller: the locals of the call are gone, the host
\* script keeps whatever the call left in it
Leave ==
    /\ pc \in {"returned", "raised"}
    /\ pc' = "idle"
    /\ group' = 0
    /\ args' = NoArgs
    /\ read' = NoRead
    /\ burn' = NoBurn
    /\ scale' = NoScale
    /\ output_node' = NoWrite
    /\ exc' = FALSE
    /\ log' = <<>>
    /\ ensured' = <<>>
    /\ rendered' = <<>>
    /\ UNCHANGED <<app, calls, groups, depth>>

Next ==
    \/ Call
    \/ GroupBegin
    \/ CreateRead
    \/ CreateSlateBurnIns
    \/ CreateScaleNode
    \/ CreateOutputNode
    \/ GroupEnd
    \/ EnsureFolderExists
    \/ ExecuteMultiple
    \/ DeleteGroup
    \/ Leave

Spec == Init /\ [][Next]_vars

(* ------------------------------------------------------------ properties *)
\* the k-th smallest element of the set of positions ps
Kth(ps, k) == CHOOSE i \in ps : Cardinality({j \in ps : j <= i}) = k

\* the lines of s, whose newlines are at the positions nl
LinesAt(s, nl, n) ==
    [k \in 1..(IF n = 0 THEN (IF s = <<>> THEN 0 ELSE 1)
                ELSE IF Kth(nl, n) = Len(s) THEN n ELSE n + 1) |->
        SubSeq(s, IF k = 1 THEN 1 ELSE Kth(nl, k - 1) + 1,
                  IF k > n THEN Len(s) ELSE Kth(nl, k) - 1)]

\* the text split at its newlines; a final newline ends the last line
Lines(s) ==
    LinesAt(s, {i \in 1..Len(s) : s[i] = NL},
            Cardinality({i \in 1..Len(s) : s[i] = NL}))

IsPrefix(p, s) == Len(p) <= Len(s) /\ SubSeq(s, 1, Len(p)) = p

Count(q, e) == Cardinality({i \in 1..Len(q) : q[i] = e})

\* ls is a sequence of lines
HasLine(ls, key) == \E i \in 1..Len(ls) : IsPrefix(key, ls[i])

\* the content of the first line that starts with key
LineValue(ls, key) ==
    LET k == CHOOSE i \in 1..Len(ls) :
                 IsPrefix(key, ls[i]) /\ \A j \in 1..(i - 1) : ~IsPrefix(key, ls[j])
    IN  SubSeq(ls[k], Len(key) + 1, Len(ls[k]))

IsSuffix(x, s) == Len(x) <= Len(s) /\ SubSeq(s, Len(s) - Len(x) + 1, Len(s)) = x

DigitValue(c) == (CHOOSE i \in 1..10 : DigitChars[i] = c) - 1

IsDigits(s) == s # <<>> /\ \A i \in 1..Len(s) : \E d \in 1..10 : DigitChars[d] = s[i]

RECURSIVE DecimalValue(_)
DecimalValue(s) ==
    IF s = <<>> THEN 0
    ELSE 10 * DecimalValue(SubSeq(s, 1, Len(s) - 1)) + DigitValue(s[Len(s)])

\* C1: whenever the call reaches the render call the graph is the chain
\* read -> burn-in -> scale -> write, for every setting; the scale node is in
\* the chain and is disabled exactly when resize_movie is off.
C1_ChainAtRender ==
    (pc = "execute" \/ rendered # <<>>) =>
        /\ read.created /\ burn.created /\ scale.created /\ output_node.created
        /\ burn.input0 = "read"
        /\ scale.input0 = "burn"
        /\ output_node.input0 = "scale"
        /\ scale.disable = ~settings.resize_movie

C1_Witness ==
    /\ pc = "execute"
    /\ ~settings.resize_movie /\ scale.disable
    /\ ~settings.add_slate /\ ~settings.add_burn_ins /\ root_proxy
    /\ output_node.input0 = "scale"

\* C2: the frame range handed to executeMultiple starts at first_frame, ends
\* at last_frame and has step 1.
C2_RangeIsFirstToLast ==
    \A i \in 1..Len(rendered) :
        rendered[i].range = [first |-> args.first_frame,
                             last |-> args.last_frame, step |-> 1]

\* C3: once control has left render_movie_in_nuke, normally or by an
\* exception, no Group node created by this code remains in the host script.
C3_NoGroupLeftOnExit ==
    pc \in {"returned", "raised", "idle"} => groups = {}

\* the label and the slate lines ls for version string vs, where hasTask and
\* hasStep say whether ls has a Task line and a Step line
LabelAndSlate(vs, ls, hasTask, hasStep) ==
    /\ ctx.task # None =>
        /\ burn.bottom_left = TaskName \o <<",", " ">> \o vs
        /\ hasTask /\ ~hasStep
    /\ (ctx.task = None /\ ctx.step # None) =>
        /\ burn.bottom_left = StepName \o <<",", " ">> \o vs
        /\ hasStep /\ ~hasTask
    /\ (ctx.task = None /\ ctx.step = None) =>
        /\ burn.bottom_left = vs
        /\ ~hasTask /\ ~hasStep
    /\ ~(hasTask /\ hasStep)
    /\ Len(ls) = (IF hasTask \/ hasStep THEN 6 ELSE 5)
    /\ IsPrefix(ProjectKey, ls[1])
    /\ IsPrefix(ctx.entity.type \o <<":", " ">>, ls[2])
    /\ IsPrefix(NameKey, ls[3])
    /\ IsPrefix(VersionKey, ls[4])
    /\ Len(ls) = 6 => (IsPrefix(TaskKey, ls[5]) \/ IsPrefix(StepKey, ls[5]))
    /\ IsPrefix(FramesKey, ls[Len(ls)])

\* C4: the label and the slate pick task over step over nothing: with a task
\* the label is "<task>, <version_str>" and the slate has a Task line and no
\* Step line; else with a step the same for the step; else the label is
\* version_str and the slate has neither line.  The slate lines come in the
\* order Project, entity, Name, Version, [Task|Step], Frames.  Stated where
\* __create_slate_burn_ins has returned; the texts are not written again.
C4_LabelPrecedence ==
    (pc = "scale" /\ burn.created) =>
        LabelAndSlate(VersionStr(args.version, settings.version_number_padding),
                      Lines(burn.slate_info),
                      HasLine(Lines(burn.slate_info), TaskKey),
                      HasLine(Lines(burn.slate_info), StepKey))

C4_Witness ==
    /\ pc = "scale" /\ burn.created
    /\ ctx.task # None /\ ctx.step # None
    /\ HasLine(Lines(burn.slate_info), TaskKey)
    /\ IsPrefix(TaskName, burn.bottom_left)

\* C5: group scope is balanced: begin() is matched by exactly one end() on
\* every path out of the try block, every node is created after begin and
\* before end, and the render call and the deletion come after end.
C5_ScopeBalanced ==
    /\ Count(log, "begin") <= 1 /\ Count(log, "end") <= 1
    /\ pc \in {"after", "execute", "delete", "returned", "raised"} =>
        /\ Count(log, "begin") = 1 /\ Count(log, "end") = 1
        /\ depth = 0
    /\ \A i \in 1..Len(log) :
        /\ log[i] \in {"Read", "nodePaste", "Reformat", "Write"} =>
            /\ \E b \in 1..(i - 1) : log[b] = "begin"
            /\ \A e \in 1..i : log[e] # "end"
        /\ log[i] = "end" => \E b \in 1..(i - 1) : log[b] = "begin"
        /\ log[i] \in {"executeMultiple", "delete"} =>
            \E e \in 1..(i - 1) : log[e] = "end"

C5_Witness ==
    /\ pc = "raised"
    /\ Count(log, "Read") = 1 /\ Count(log, "nodePaste") = 1
    /\ Count(log, "Reformat") = 0
    /\ log[Len(log)] = "end"
    /\ depth = 0

\* C6: executeMultiple is called at most once per call, only on a Write node
\* that was created and connected to the scale node, only after
\* ensure_folder_exists on the directory of output_path, before the group is
\* deleted, and never when a step of building the graph raised.
C6_RenderGuarded ==
    /\ Count(log, "executeMultiple") <= 1 /\ Len(rendered) <= 1
    /\ Len(rendered) = Count(log, "executeMultiple")
    /\ pc = "execute" => ~exc
    /\ \A r \in 1..Len(rendered) :
        /\ rendered[r].node.created
        /\ rendered[r].node.input0 = "scale"
        /\ rendered[r].node = output_node
        /\ rendered[r].group_alive
        /\ read.created /\ burn.created /\ scale.created
    /\ \A i \in 1..Len(log) :
        /\ log[i] = "executeMultiple" =>
            /\ \E j \in 1..(i - 1) : log[j] = "ensure_folder_exists"
            /\ ensured = <<SubSeq(args.output_path, 1, Len(args.output_path) - 2)>>
            /\ \A j \in 1..i : log[j] # "delete"
            /\ Count(log, "Read") = 1 /\ Count(log, "nodePaste") = 1
            /\ Count(log, "Reformat") = 1 /\ Count(log, "Write") = 1

C6_Witness ==
    /\ pc = "returned"
    /\ Len(rendered) = 1
    /\ log[Len(log)] = "delete"
    /\ log[Len(log) - 1] = "executeMultiple"
    /\ log[Len(log) - 2] = "ensure_folder_exists"

\* C7: with add_slate off the chooser's 'which' knob ends with no expression,
\* not animated and holding the constant 1; with add_slate on the knob is as
\* pasted.  In both cases the slate_info message is set.
C7_SlateToggle ==
    burn.created =>
        /\ ~settings.add_slate =>
            /\ burn.which.expression = ""
            /\ ~burn.which.animated
            /\ burn.which.value = 1
            /\ burn.which.keys = {}
        /\ settings.add_slate => burn.which = PastedChooser
        /\ IsPrefix(ProjectKey, burn.slate_info)

C7_Witness ==
    /\ burn.created
    /\ ~settings.add_slate
    /\ burn.which.value = 1
    /\ PastedChooser.expression # ""

\* vs is "v" and the digits of the version, zero-filled to pad and no further
PaddedVersion(vs, pad) ==
    /\ vs # <<>> /\ vs[1] = "v"
    /\ IsDigits(Tail(vs))
    /\ DecimalValue(Tail(vs)) = args.version
    /\ Len(vs) - 1 >= pad
    /\ Len(vs) - 1 > pad => (Len(vs) = 2 \/ vs[2] # "0")
    /\ IsSuffix(vs, burn.bottom_left)
    /\ (ctx.task = None /\ ctx.step = None) => burn.bottom_left = vs

\* C8: version_str is "v" followed by the decimal digits of the version,
\* left-padded with "0" to at least the padding and never truncated; the same
\* string ends the bottom-left label and is the slate's Version line.  Stated
\* where __create_slate_burn_ins has returned.
C8_VersionStr ==
    (pc = "scale" /\ burn.created) =>
        PaddedVersion(LineValue(Lines(burn.slate_info), VersionKey),
                      settings.version_number_padding)

C8_Witness ==
    /\ pc = "scale" /\ burn.created
    /\ args.version >= 10
    /\ settings.version_number_padding = 1
    /\ LineValue(Lines(burn.slate_info), VersionKey) = <<"v", "1", "0">>
====
